---- MODULE Spec2Model ----
(***************************************************************************)
(* Model of the geomag-plots timeseries application:                       *)
(*   TimeseriesApp.js       the controller (sync cycle, auto update timer, *)
(*                          fetch callbacks, destroy)                      *)
(*   TimeseriesSelectView   the selection view (channel / observatory      *)
(*                          clicks, time radios, custom time validation)   *)
(*                                                                         *)
(* Time unit.  The source works in milliseconds.  TLC integers are 32 bit  *)
(* and 2678400000 ms does not fit, so every instant and span of the model  *)
(* is in whole SECONDS (the granularity of the "YYYY-MM-DD HH:MM:SS" text  *)
(* the view formats and parses); each time constant is the source's        *)
(* millisecond constant divided by 1000.                                   *)
(***************************************************************************)
EXTENDS Integers, Sequences, FiniteSets

\* ------------------------------------------------------------------ bounds
MaxCycles == 2        \* fetch requests issued in one behaviour
Now0 == 86430         \* wall-clock instant of construction
MaxNow == 87030       \* last wall-clock instant
TickStep == 300       \* granularity of the wall clock
MaxSortLen == 3       \* records in a response whose order is followed
RoundFirst == 85500   \* first and last instant at which rounding is
RoundLast == 87300    \* exercised: 15 minutes either side of midnight

\* --------------------------------------------------------- program constants
RealtimeSpan == 900           \* 900000 ms
PastdaySpan == 86400          \* 86400000 ms
AutoUpdateTime == 300         \* 300000 ms
SecondsLimit == 1800          \* 1800000 ms
MaxRange == 2678400           \* 2678400000 ms
DefaultRound == 5             \* n = n || 5

\* ----------------------------------------------------------------- values
NullDate == -2                \* null
InvalidDate == -1             \* a Date whose time value is NaN
NullId == "null"              \* null channel / observatory
NullHandle == 0               \* _autoUpdateTimeout === null
UndefinedHandle == -1         \* _autoUpdateTimeout before the first cycle
NullInterval == 0             \* autoUpdateTime = null
NoChannels == {}              \* channels: null in a request

Channels == {"H", "E"}
Observatories == {"BOU"}
LiveModes == {"realtime", "pastday"}

NoError == ""
MsgValidTime == "Please enter a valid time."
MsgOrder == "Start Time must come before End Time."
MsgRange == "Please select less than 1 month of data."

\* instants a user types into the custom start / end inputs
Times == {0, MaxRange, MaxRange + 1}

\* text of an input element
EmptyText == [kind |-> "empty", sec |-> 0]
BadText == [kind |-> "bad", sec |-> 0]
TimeText(t) == [kind |-> "time", sec |-> t]
Texts == {EmptyText, BadText} \cup {TimeText(t) : t \in Times}
\* the texts typed while the controller's fetches and timers are followed
CoreStartTexts == {TimeText(0)}
CoreEndTexts == {TimeText(MaxRange)}

IsValidDate(d) == d >= 0

\* ---------------------------------------------------------------- records
\* series records as the fetch service returns them, and the reference
\* collection of observatories (options.observatories)
NoLatitude == -1000
NoName == ""
\* rest: the metadata fields the application never names
Meta(code) == [observatory |-> code, name |-> NoName,
               latitude |-> NoLatitude, longitude |-> NoLatitude,
               rest |-> "rest"]
Reference == {[code |-> "AAA", name |-> "Equator", latitude |-> 0, longitude |-> 0],
              [code |-> "BOU", name |-> "Boulder", latitude |-> 40, longitude |-> -105],
              [code |-> "BRW", name |-> "Barrow", latitude |-> 71, longitude |-> -156]}
Responses == {<<>>, <<Meta("XXX"), Meta("BOU"), Meta("BRW")>>}

\* the responses whose publication order is followed: up to MaxSortLen
\* records with pairwise distinct codes, in every order of return; "BRT" is
\* not in the reference collection
SortCodes == {"AAA", "BOU", "BRT", "BRW"}
SortResponses ==
  {r \in UNION {[1..n -> {Meta(c) : c \in SortCodes}] : n \in 0..MaxSortLen} :
     \A i, j \in DOMAIN r : i # j => r[i] # r[j]}

VARIABLES
  app,                \* "constructed" | "threw" | "destroyed"
  now,                \* wall clock (new Date())
  config,             \* _config model
  radio,              \* which of the three timemode radios is checked
  startText,          \* _startTime.value
  endText,            \* _endTime.value
  timeError,          \* _timeError.innerHTML
  autoUpdateTimeout,  \* _autoUpdateTimeout
  timers,             \* timers armed with setTimeout and not yet fired/cleared
  cycle,              \* number of getTimeseries calls made so far
  pending,            \* the calls whose callback / errback is still to come
  lastConfigCycle,    \* the last call made for a configuration change
  request,            \* the options of the last getTimeseries call
  loading,            \* _timeseriesEl has class "loading"
  timeseries,         \* _timeseries collection (published result set)
  event               \* the handler that ran last, with its locals

vars == <<app, now, config, radio, startText, endText, timeError,
          autoUpdateTimeout, timers, cycle, pending, lastConfigCycle,
          request, loading, timeseries, event>>

\* ------------------------------------------------------- TimeseriesApp.js
\* variant: an instant on a multiple of n minutes is kept (ceiling)
RoundUpCeiling(dt, n0) ==
  LET n == IF n0 = 0 THEN DefaultRound ELSE n0
      hour == dt - (dt % 3600)
      i == (dt % 3600) \div 60
  IN hour + 60 * (n * ((i + n - 1) \div n))

\* __roundUpToNearestNMinutes(dt, n): the minutes of dt are replaced by
\* n * floor((i + n) / n); seconds are dropped by Date.UTC(y, m, d, h, i)
RoundUp(dt, n0) ==
  LET n == IF n0 = 0 THEN DefaultRound ELSE n0
      hour == dt - (dt % 3600)
      i == (dt % 3600) \div 60
  IN hour + 60 * (n * ((i + n) \div n))

\* variant: the handle is forgotten but the timer is left armed
ClearTimeoutLeavesTimer(tm, handle) == tm

\* clearTimeout(handle)
ClearTimeout(tm, handle) == {t \in tm : t.id # handle}

\* variant: the past day window ends on the next whole minute
ResolveWindowPastdayMinute(cfg, nowv) ==
  IF cfg.timemode \in LiveModes
  THEN LET e == RoundUp(nowv, 1)
       IN [endtime |-> e,
           starttime |-> e - (IF cfg.timemode = "realtime"
                              THEN RealtimeSpan ELSE PastdaySpan),
           autoUpdateTime |-> AutoUpdateTime]
  ELSE [endtime |-> cfg.endtime, starttime |-> cfg.starttime,
        autoUpdateTime |-> NullInterval]

\* _onConfigChange, lines 197-212: the window of the cycle
ResolveWindow(cfg, nowv) ==
  IF cfg.timemode = "realtime"
  THEN LET e == RoundUp(nowv, 1)
       IN [endtime |-> e, starttime |-> e - RealtimeSpan,
           autoUpdateTime |-> AutoUpdateTime]
  ELSE IF cfg.timemode = "pastday"
  THEN LET e == RoundUp(nowv, 5)
       IN [endtime |-> e, starttime |-> e - PastdaySpan,
           autoUpdateTime |-> AutoUpdateTime]
  ELSE [endtime |-> cfg.endtime, starttime |-> cfg.starttime,
        autoUpdateTime |-> NullInterval]

\* variant: a window of exactly 30 minutes is not requested in seconds
UseSecondsStrict(w) ==
  /\ IsValidDate(w.endtime)
  /\ IsValidDate(w.starttime)
  /\ w.endtime - w.starttime < SecondsLimit

\* _onConfigChange, lines 213-217
UseSeconds(w) ==
  /\ IsValidDate(w.endtime)
  /\ IsValidDate(w.starttime)
  /\ w.endtime - w.starttime <= SecondsLimit

\* endtime.getTime() / starttime.getTime() on null is a TypeError
WindowThrows(w) == w.endtime = NullDate \/ w.starttime = NullDate

\* _onConfigChange, lines 221-236: the request handed to getTimeseries
Request(cfg, w, id, tm) ==
  [id |-> id,
   channel |-> cfg.channel, observatory |-> cfg.observatory,
   channels |-> IF cfg.observatory # NullId THEN Channels ELSE NoChannels,
   starttime |-> w.starttime, endtime |-> w.endtime,
   seconds |-> UseSeconds(w),
   armedAtIssue |-> Cardinality(tm)]

\* _onConfigChange as a function of the state it reads: the timer table,
\* the handle and the number of requests issued so far
OnConfigChange(cfg, tm, handle, cyc, req, nowv) ==
  LET cleared == IF handle # NullHandle THEN ClearTimeout(tm, handle) ELSE tm
      w == ResolveWindow(cfg, nowv)
      id == cyc + 1
  IN IF WindowThrows(w)
     THEN [threw |-> TRUE, timers |-> cleared,
           autoUpdateTimeout |-> NullHandle, cycle |-> cyc,
           request |-> req]
     ELSE [threw |-> FALSE,
           timers |-> IF w.autoUpdateTime # NullInterval
                      THEN cleared \cup {[id |-> id, due |-> nowv + w.autoUpdateTime]}
                      ELSE cleared,
           autoUpdateTimeout |-> IF w.autoUpdateTime # NullInterval
                                 THEN id ELSE NullHandle,
           cycle |-> id,
           request |-> Request(cfg, w, id, cleared)]

\* variant: the timer callback re-requests the window captured when it was armed
OnAutoUpdateSnapshot(cfg, tm, handle, cyc, req, nowv) ==
  LET res == OnConfigChange(cfg, tm, handle, cyc, req, nowv)
  IN IF res.threw THEN res
     ELSE [res EXCEPT !.request.starttime = req.starttime,
                      !.request.endtime = req.endtime]

\* _onAutoUpdate
OnAutoUpdate(cfg, tm, handle, cyc, req, nowv) ==
  OnConfigChange(cfg, tm, handle, cyc, req, nowv)

\* variant: a found record's metadata is replaced by the reference entry's
MergeMetaReplaces(m, obs) ==
  IF \E o \in obs : o.code = m.observatory
  THEN LET o == CHOOSE o \in obs : o.code = m.observatory
       IN [observatory |-> o.code, name |-> o.name, latitude |-> o.latitude,
           longitude |-> o.longitude, rest |-> ""]
  ELSE m

\* _onTimeseriesLoad, lines 261-271: copy reference metadata
MergeMeta(m, obs) ==
  IF \E o \in obs : o.code = m.observatory
  THEN LET o == CHOOSE o \in obs : o.code = m.observatory
       IN [m EXCEPT !.name = o.name, !.latitude = o.latitude,
                    !.longitude = o.longitude]
  ELSE m

MergeAll(ts, obs) == [i \in 1..Len(ts) |-> MergeMeta(ts[i], obs)]

\* string order of the observatory codes of the model
CodeOrder == <<"AAA", "BOU", "BRT", "BRW", "XXX">>
CodeRank(c) == CHOOSE i \in 1..Len(CodeOrder) : CodeOrder[i] = c

\* a latitude used as a condition: undefined and 0 are falsy
Truthy(lat) == lat # NoLatitude /\ lat # 0

\* _onTimeseriesLoad, lines 273-293: the sort comparator
Compare(a, b) ==
  IF Truthy(a.latitude) /\ Truthy(b.latitude)
  THEN b.latitude - a.latitude
  ELSE IF CodeRank(a.observatory) < CodeRank(b.observatory) THEN -1
  ELSE IF CodeRank(b.observatory) < CodeRank(a.observatory) THEN 1
  ELSE 0

\* Array.prototype.sort on a short array: stable insertion sort
RECURSIVE InsertSorted(_, _)
InsertSorted(s, x) ==
  IF s = <<>> THEN <<x>>
  ELSE IF Compare(s[Len(s)], x) > 0
       THEN Append(InsertSorted(SubSeq(s, 1, Len(s) - 1), x), s[Len(s)])
       ELSE Append(s, x)

RECURSIVE SortSeries(_)
SortSeries(s) ==
  IF s = <<>> THEN <<>>
  ELSE InsertSorted(SortSeries(SubSeq(s, 1, Len(s) - 1)), s[Len(s)])

\* _onTimeseriesLoad: what is published for a response
OnTimeseriesLoad(id, response, obs) ==
  [by |-> id, records |-> SortSeries(MergeAll(response, obs))]

\* variant: the previous results are kept on error
OnTimeseriesErrorKeeps(id, ld, ts) ==
  [loading |-> FALSE, timeseries |-> ts]

\* _onTimeseriesError: the loading class is removed, the collection reset
OnTimeseriesError(id, ld, ts) ==
  [loading |-> FALSE, timeseries |-> [by |-> id, records |-> <<>>]]

\* ---------------------------------------------------- TimeseriesSelectView
\* _formatDate
FormatDate(d) == IF d = NullDate THEN EmptyText ELSE TimeText(d)

\* _parseDate
ParseDate(s) ==
  IF s.kind = "empty" THEN NullDate
  ELSE IF s.kind = "bad" THEN InvalidDate
  ELSE s.sec

\* _validateTime
ValidateTime(time) ==
  IF time = NullDate \/ ~IsValidDate(time)
  THEN [ok |-> FALSE, error |-> MsgValidTime]
  ELSE [ok |-> TRUE, error |-> NoError]

\* _timeOrder
TimeOrder(start, end) ==
  IF start > end
  THEN [ok |-> FALSE, error |-> MsgOrder]
  ELSE [ok |-> TRUE, error |-> NoError]

\* variant: 31 days exactly is already too long
ValidateRangeExclusive(start, end) ==
  IF (end - start) >= MaxRange
  THEN [ok |-> FALSE, error |-> MsgRange]
  ELSE [ok |-> TRUE, error |-> NoError]

\* variant: the difference is taken the wrong way round
ValidateRangeSwapped(start, end) ==
  IF (start - end) > MaxRange
  THEN [ok |-> FALSE, error |-> MsgRange]
  ELSE [ok |-> TRUE, error |-> NoError]

\* _validateRange
ValidateRange(start, end) ==
  IF (end - start) > MaxRange
  THEN [ok |-> FALSE, error |-> MsgRange]
  ELSE [ok |-> TRUE, error |-> NoError]

\* variant: the four checks are all run (& in place of &&); the message of
\* the last one stands
ValidateNoShortCircuit(start, end) ==
  LET v1 == ValidateTime(start)
      v2 == ValidateTime(end)
      v3 == TimeOrder(start, end)
      v4 == ValidateRange(start, end)
  IN [ok |-> v1.ok /\ v2.ok /\ v3.ok /\ v4.ok, error |-> v4.error]

\* _onTimeChange, lines 204-207: the && chain of the four checks
Validate(start, end) ==
  LET v1 == ValidateTime(start)
      v2 == ValidateTime(end)
      v3 == TimeOrder(start, end)
      v4 == ValidateRange(start, end)
  IN IF ~v1.ok THEN v1
     ELSE IF ~v2.ok THEN v2
     ELSE IF ~v3.ok THEN v3
     ELSE v4

\* the argument of _config.set in each handler
ChannelPatch(id) == [channel |-> id, observatory |-> NullId]
\* variant: the channel is not cleared
ObservatoryPatchKeepsChannel(id) == [observatory |-> id]
ObservatoryPatch(id) == [channel |-> NullId, observatory |-> id]
CustomPatch(start, end) ==
  [endtime |-> end, starttime |-> start, timemode |-> "custom"]
\* variant: a mode selection also drops the stored custom times
ModePatchResetsTimes(mode) ==
  [timemode |-> mode, starttime |-> NullDate, endtime |-> NullDate]
ModePatch(mode) == [timemode |-> mode]

\* Model.set: the keys of the patch replace the model's
Extend(cfg, patch) ==
  [k \in DOMAIN cfg |-> IF k \in DOMAIN patch THEN patch[k] ELSE cfg[k]]

\* Model.set triggers "change" when a value differs (!==); a Date object
\* always differs from the stored one
Changed(cfg, patch) ==
  \E k \in DOMAIN patch :
     \/ patch[k] # cfg[k]
     \/ k \in {"starttime", "endtime"} /\ patch[k] # NullDate

\* render: the radio checked for a time mode
RenderRadio(mode) ==
  IF mode = "realtime" THEN "realtime"
  ELSE IF mode = "pastday" THEN "pastday"
  ELSE "custom"

\* ------------------------------------------------------------------- Init
\* _initialize: default configuration, extended by options.config.timemode
DefaultConfig ==
  [channel |-> "H", endtime |-> NullDate, observatory |-> NullId,
   starttime |-> NullDate, timemode |-> "pasthour"]

\* before the first getTimeseries call
NoRequest ==
  [id |-> 0, channel |-> NullId, observatory |-> NullId,
   channels |-> NoChannels, starttime |-> NullDate, endtime |-> NullDate,
   seconds |-> FALSE, armedAtIssue |-> 0]

NoEvent == [op |-> "init", target |-> "", startTime |-> NullDate,
            endTime |-> NullDate, response |-> <<>>]
Ev(op, target, s, e) ==
  [op |-> op, target |-> target, startTime |-> s, endTime |-> e,
   response |-> <<>>]

\* the controller constructed at instant t with options.config.timemode
InitAt(mode, t) ==
    LET cfg == Extend(DefaultConfig, ModePatch(mode))
        res == OnConfigChange(cfg, {}, UndefinedHandle, 0, NoRequest, t)
    IN /\ now = t
       /\ config = cfg
       /\ app = IF res.threw THEN "threw" ELSE "constructed"
       /\ radio = RenderRadio(cfg.timemode)
       /\ startText = FormatDate(cfg.starttime)
       /\ endText = FormatDate(cfg.endtime)
       /\ timeError = NoError
       /\ autoUpdateTimeout = res.autoUpdateTimeout
       /\ timers = res.timers
       /\ cycle = res.cycle
       /\ pending = 1..res.cycle
       /\ lastConfigCycle = 0
       /\ request = res.request
       /\ loading = ~res.threw
       /\ timeseries = [by |-> 0, records |-> <<>>]
       /\ event = NoEvent

Init == \E mode \in {"pasthour", "realtime", "pastday"} : InitAt(mode, Now0)

\* ---------------------------------------------------------------- actions
\* _config.set(patch) with both "change" listeners: _onConfigChange first,
\* then the view's render (skipped when _onConfigChange throws).
\* r, s, e: radio and input texts as the user left them before the handler.
ConfigSet(patch, r, s, e) ==
  LET cfg == Extend(config, patch)
      notify == Changed(config, patch)
      res == OnConfigChange(cfg, timers, autoUpdateTimeout, cycle, request, now)
      rendered == notify /\ ~res.threw
  IN /\ rendered => cycle < MaxCycles
     /\ config' = cfg
     /\ timers' = IF notify THEN res.timers ELSE timers
     /\ autoUpdateTimeout' = IF notify THEN res.autoUpdateTimeout
                             ELSE autoUpdateTimeout
     /\ cycle' = IF notify THEN res.cycle ELSE cycle
     /\ pending' = IF rendered THEN pending \cup {res.cycle} ELSE pending
     /\ lastConfigCycle' = IF rendered THEN res.cycle ELSE lastConfigCycle
     /\ request' = IF notify THEN res.request ELSE request
     /\ loading' = IF rendered THEN TRUE ELSE loading
     /\ radio' = IF rendered THEN RenderRadio(cfg.timemode) ELSE r
     /\ startText' = IF rendered THEN FormatDate(cfg.starttime) ELSE s
     /\ endText' = IF rendered THEN FormatDate(cfg.endtime) ELSE e

NoConfigSet(r, s, e) ==
  /\ radio' = r
  /\ startText' = s
  /\ endText' = e
  /\ UNCHANGED <<config, timers, autoUpdateTimeout, cycle, pending,
                 lastConfigCycle, request, loading>>

\* _onChannelClick
OnChannelClick(id) ==
  /\ app # "destroyed"
  /\ ConfigSet(ChannelPatch(id), radio, startText, endText)
  /\ event' = Ev("channelClick", id, NullDate, NullDate)
  /\ UNCHANGED <<app, now, timeError, timeseries>>

\* _onObservatoryClick
OnObservatoryClick(id) ==
  /\ app # "destroyed"
  /\ ConfigSet(ObservatoryPatch(id), radio, startText, endText)
  /\ event' = Ev("observatoryClick", id, NullDate, NullDate)
  /\ UNCHANGED <<app, now, timeError, timeseries>>

\* _onTimeChange(e), e.target one of the three radios, the two inputs or
\* the update button; r, s, e as the browser left them before the event
OnTimeChange(target, r, s, e) ==
  /\ app # "destroyed"
  /\ IF r = "custom"
     THEN IF target = "custom"
          THEN /\ NoConfigSet(r, s, e)
               /\ timeError' = timeError
               /\ event' = Ev("timeChange", target, NullDate, NullDate)
          ELSE LET endTime == ParseDate(e)
                   startTime == ParseDate(s)
                   v == Validate(startTime, endTime)
               IN /\ timeError' = v.error
                  /\ event' = Ev("timeChange", target, startTime, endTime)
                  /\ IF v.ok
                     THEN ConfigSet(CustomPatch(startTime, endTime), r, s, e)
                     ELSE NoConfigSet(r, s, e)
     ELSE /\ ConfigSet(ModePatch(r), r, s, e)
          /\ timeError' = timeError
          /\ event' = Ev("timeChange", target, NullDate, NullDate)
  /\ UNCHANGED <<app, now, timeseries>>

\* the user checks another time mode radio
TimeRadioChange(m) ==
  /\ radio # m
  /\ OnTimeChange(m, m, startText, endText)

\* the user changes the start time input (offered with the custom radio)
StartTimeChange(v) ==
  /\ radio = "custom"
  /\ v # startText
  /\ OnTimeChange("start", radio, v, endText)

\* the user changes the end time input (offered with the custom radio)
EndTimeChange(v) ==
  /\ radio = "custom"
  /\ v # endText
  /\ OnTimeChange("end", radio, startText, v)

\* the user clicks Update
TimeUpdateClick == OnTimeChange("update", radio, startText, endText)

\* the auto update timer fires: _onAutoUpdate.  After destroy _config is
\* null and _onConfigChange throws once it has cleared the handle.
AutoUpdate ==
  \E t \in timers :
    /\ now >= t.due
    /\ IF app = "destroyed"
       THEN /\ timers' = timers \ {t}
            /\ autoUpdateTimeout' = NullHandle
            /\ UNCHANGED <<cycle, pending, request, loading>>
       ELSE LET res == OnAutoUpdate(config, timers \ {t}, autoUpdateTimeout,
                                    cycle, request, now)
            IN /\ ~res.threw => cycle < MaxCycles
               /\ timers' = res.timers
               /\ autoUpdateTimeout' = res.autoUpdateTimeout
               /\ cycle' = res.cycle
               /\ pending' = IF res.threw THEN pending
                              ELSE pending \cup {res.cycle}
               /\ request' = res.request
               /\ loading' = IF res.threw THEN loading ELSE TRUE
    /\ event' = Ev("autoUpdate", "", NullDate, NullDate)
    /\ UNCHANGED <<app, now, config, radio, startText, endText, timeError,
                   lastConfigCycle, timeseries>>

\* the fetch service calls back: _onTimeseriesLoad(response).  After
\* destroy the handler throws before it changes anything.
TimeseriesLoad(id, response) ==
  /\ id \in pending
  /\ pending' = pending \ {id}
  /\ IF app = "destroyed"
     THEN UNCHANGED <<timeseries, loading>>
     ELSE /\ timeseries' = OnTimeseriesLoad(id, response, Reference)
          /\ loading' = FALSE
  /\ event' = [Ev("load", "", NullDate, NullDate) EXCEPT !.response = response]
  /\ UNCHANGED <<app, now, config, radio, startText, endText, timeError,
                 autoUpdateTimeout, timers, cycle, lastConfigCycle, request>>

\* the fetch service calls the errback: _onTimeseriesError
TimeseriesError(id) ==
  /\ id \in pending
  /\ pending' = pending \ {id}
  /\ IF app = "destroyed"
     THEN UNCHANGED <<timeseries, loading>>
     ELSE LET res == OnTimeseriesError(id, loading, timeseries)
          IN /\ timeseries' = res.timeseries
             /\ loading' = res.loading
  /\ event' = Ev("error", "", NullDate, NullDate)
  /\ UNCHANGED <<app, now, config, radio, startText, endText, timeError,
                 autoUpdateTimeout, timers, cycle, lastConfigCycle, request>>

\* _this.destroy: listeners removed, references dropped; the timer handle
\* is not touched
Destroy ==
  /\ app = "constructed"
  /\ app' = "destroyed"
  /\ event' = Ev("destroy", "", NullDate, NullDate)
  /\ UNCHANGED <<now, config, radio, startText, endText, timeError,
                 autoUpdateTimeout, timers, cycle, pending, lastConfigCycle,
                 request, loading, timeseries>>

\* wall clock
Tick ==
  /\ now + TickStep <= MaxNow
  /\ now' = now + TickStep
  /\ UNCHANGED <<app, config, radio, startText, endText, timeError,
                 autoUpdateTimeout, timers, cycle, pending, lastConfigCycle,
                 request, loading, timeseries, event>>

Next ==
  \/ \E id \in Channels : OnChannelClick(id)
  \/ \E id \in Observatories : OnObservatoryClick(id)
  \/ \E m \in {"realtime", "pastday", "custom"} : TimeRadioChange(m)
  \/ \E v \in CoreStartTexts : StartTimeChange(v)
  \/ \E v \in CoreEndTexts : EndTimeChange(v)
  \/ TimeUpdateClick
  \/ AutoUpdate
  \/ \E id \in 1..MaxCycles, r \in Responses : TimeseriesLoad(id, r)
  \/ \E id \in 1..MaxCycles : TimeseriesError(id)
  \/ Destroy
  \/ Tick

Spec == Init /\ [][Next]_vars

\* the fetch service is single-shot: every getTimeseries call gets its
\* callback or its errback
Callback(id) ==
  \/ \E r \in Responses : TimeseriesLoad(id, r)
  \/ TimeseriesError(id)

LiveSpec ==
  Init /\ [][Next]_vars /\ \A id \in 1..MaxCycles : WF_vars(Callback(id))

\* rounding alone: the controller is constructed in a live mode at any
\* instant around midnight and the other live mode is selected, so that each
\* request's end is __roundUpToNearestNMinutes of that instant
RoundInit ==
  \E t \in RoundFirst..RoundLast, mode \in LiveModes : InitAt(mode, t)

RoundNext == \E m \in LiveModes : TimeRadioChange(m)

RoundSpec == RoundInit /\ [][RoundNext]_vars

\* merge and sort alone: the controller is constructed in realtime mode,
\* channels are clicked and the fetches call back with any response
SortInit == InitAt("realtime", Now0)

SortNext ==
  \/ \E id \in Channels : OnChannelClick(id)
  \/ \E id \in 1..MaxCycles, r \in SortResponses : TimeseriesLoad(id, r)

SortSpec == SortInit /\ [][SortNext]_vars

\* the resolution of the request: the time modes are selected and custom
\* windows of 30 minutes, of one second more and of one second are typed
SecondsTexts ==
  {TimeText(0), TimeText(SecondsLimit), TimeText(SecondsLimit + 1)}

SecondsNext ==
  \/ \E m \in {"realtime", "pastday", "custom"} : TimeRadioChange(m)
  \/ \E v \in SecondsTexts : StartTimeChange(v)
  \/ \E v \in SecondsTexts : EndTimeChange(v)
  \/ TimeUpdateClick

SecondsSpec == Init /\ [][SecondsNext]_vars

\* the selection view alone: every text can be typed, fetches stay
\* outstanding and no timer fires
ViewNext ==
  \/ \E id \in Channels : OnChannelClick(id)
  \/ \E id \in Observatories : OnObservatoryClick(id)
  \/ \E m \in {"realtime", "pastday", "custom"} : TimeRadioChange(m)
  \/ \E v \in Texts : StartTimeChange(v)
  \/ \E v \in Texts : EndTimeChange(v)
  \/ TimeUpdateClick

ViewSpec == Init /\ [][ViewNext]_vars

TypeOK ==
  /\ app \in {"constructed", "threw", "destroyed"}
  /\ radio \in {"realtime", "pastday", "custom"}
  /\ cycle <= MaxCycles
  /\ pending \subseteq 1..cycle

\* ------------------------------------------------------------ step shapes
\* the step is a run of _onTimeseriesError
ErrorStep == event'.op = "error" /\ pending' # pending

\* the step is a firing of the auto update timer
AutoUpdateStep == event'.op = "autoUpdate" /\ timers' # timers

\* the step is a run of _onTimeChange that reads the two inputs: the custom
\* radio is checked and the event comes from an input or the button
SubmitStep ==
  /\ event'.op = "timeChange"
  /\ event'.target \in {"start", "end", "update"}
  /\ radio = "custom"
  /\ now' = now

Armed == timers # {}

\* ------------------------------------------------------------------ claims
\* C1: a fetch that completes after a newer fetch was issued for a
\* configuration change does not change the published result set.
C1_StaleCompletionIgnored ==
  [][\A c1 \in pending :
       (c1 \notin pending' /\ c1 < lastConfigCycle)
         => timeseries'.records = timeseries.records]_vars

C3_DestroyCancelsTimer ==
  /\ [](app = "destroyed" => timers = {})
  /\ [][app = "destroyed" => cycle' = cycle]_vars

\* C4: at most one auto-refresh timer is armed in every state, and no timer
\* is armed at the moment a sync cycle hands its request to the fetch service.
C4_AtMostOneTimer ==
  /\ Cardinality(timers) <= 1
  /\ request.armedAtIssue = 0

C4_Witness ==
  /\ cycle >= 2
  /\ request.id = cycle
  /\ timers # {}
  /\ \A t \in timers : t.id = cycle

\* C5: a firing of the timer on a live controller issues one new fetch whose
\* channel and observatory are the configuration's and whose window ends
\* after the instant of firing (at most RoundUp's interval later, so later
\* than the window requested when the timer was armed), and arms a timer.
C5_TimerRefetchesCurrent ==
  [][(AutoUpdateStep /\ app # "destroyed")
       => /\ config' = config
          /\ config.timemode \in LiveModes
          /\ cycle' = cycle + 1
          /\ cycle' \in pending'
          /\ request'.id = cycle'
          /\ request'.channel = config.channel
          /\ request'.observatory = config.observatory
          /\ request'.endtime > now'
          /\ request'.endtime <= now' + 300
          /\ request'.endtime > request.endtime
          /\ request'.starttime = request'.endtime -
               (IF config.timemode = "realtime" THEN RealtimeSpan ELSE PastdaySpan)
          /\ timers' = {[id |-> cycle', due |-> now' + AutoUpdateTime]}]_vars

C5_Witness ==
  /\ event.op = "autoUpdate"
  /\ app # "destroyed"
  /\ cycle = 2
  /\ request.id = 2
  /\ request.endtime > now
  /\ Armed

\* C6: a submitted pair of valid timestamps with start >= end gets the
\* ordering error and is not committed.
C6_OrderRejected ==
  [][(/\ SubmitStep
      /\ IsValidDate(event'.startTime)
      /\ IsValidDate(event'.endTime)
      /\ event'.startTime >= event'.endTime)
       => (timeError' = MsgOrder /\ config' = config)]_vars

\* C7: a submitted pair of valid timestamps with start < end and a span of
\* at most 31 days ends with no error and is committed, unchanged, in one
\* configuration update to timemode custom.
C7_ValidRangeCommitted ==
  [][(/\ SubmitStep
      /\ IsValidDate(event'.startTime)
      /\ IsValidDate(event'.endTime)
      /\ event'.startTime < event'.endTime
      /\ event'.endTime - event'.startTime <= MaxRange)
       => /\ timeError' = NoError
          /\ config'.timemode = "custom"
          /\ config'.starttime = event'.startTime
          /\ config'.endtime = event'.endTime
          /\ config'.channel = config.channel
          /\ config'.observatory = config.observatory
          /\ cycle' = cycle + 1]_vars

C7_Witness ==
  /\ event.op = "timeChange"
  /\ event.startTime = 0
  /\ event.endTime = MaxRange
  /\ timeError = NoError
  /\ config.timemode = "custom"
  /\ config.starttime = 0
  /\ config.endtime = MaxRange

\* C8: a submitted pair of valid timestamps more than 31 days apart gets the
\* span error; the configuration is unchanged and no sync cycle starts.
C8_LongRangeRejected ==
  [][(/\ SubmitStep
      /\ IsValidDate(event'.startTime)
      /\ IsValidDate(event'.endTime)
      /\ event'.endTime - event'.startTime > MaxRange)
       => /\ timeError' = MsgRange
          /\ config' = config
          /\ cycle' = cycle
          /\ pending' = pending]_vars

C8_Witness ==
  /\ event.op = "timeChange"
  /\ event.startTime = 0
  /\ event.endTime = MaxRange + 1
  /\ timeError = MsgRange
  /\ config.timemode # "custom"

\* C9: a submission whose start or end is missing or unparsable ends with
\* exactly the valid-time error, and the configuration is unchanged.
C9_InvalidTimeShortCircuits ==
  [][(/\ SubmitStep
      /\ (~IsValidDate(event'.startTime) \/ ~IsValidDate(event'.endTime)))
       => /\ timeError' = MsgValidTime
          /\ config' = config
          /\ cycle' = cycle]_vars

C9_Witness ==
  /\ event.op = "timeChange"
  /\ event.target = "end"
  /\ event.startTime = MaxRange + 1
  /\ event.endTime = InvalidDate
  /\ timeError = MsgValidTime

\* C10: exactly one of the configuration's channel and observatory is
\* non-null, and a channel or observatory selection sets the one and clears
\* the other in the same update.
C10_ChannelXorObservatory ==
  /\ []((config.channel = NullId) # (config.observatory = NullId))
  /\ [][/\ (event'.op = "observatoryClick" /\ now' = now)
             => (config'.observatory = event'.target /\ config'.channel = NullId)
        /\ (event'.op = "channelClick" /\ now' = now)
             => (config'.channel = event'.target /\ config'.observatory = NullId)]_vars

C10_Witness ==
  /\ event.op = "observatoryClick"
  /\ config.observatory = "BOU"
  /\ config.channel = NullId
  /\ config.timemode = "custom"

\* the step is a run of _onTimeChange that selects realtime or pastday
ModeStep ==
  /\ event'.op = "timeChange"
  /\ event'.target \in LiveModes
  /\ now' = now

\* the step is a channel or an observatory click
SelectStep ==
  /\ event'.op \in {"channelClick", "observatoryClick"}
  /\ now' = now

\* C11: selecting realtime or pastday, and selecting a channel or an
\* observatory, leave the configuration's stored start and end time
\* unchanged; and the render that follows a change to a live mode shows the
\* stored pair in the two inputs, so that going back to custom commits the
\* pair committed before.
C11_ModeKeepsCustomTimes ==
  [][/\ (ModeStep \/ SelectStep)
          => /\ config'.starttime = config.starttime
             /\ config'.endtime = config.endtime
     /\ (ModeStep /\ cycle' # cycle)
          => /\ config'.timemode = event'.target
             /\ ParseDate(startText') = config.starttime
             /\ ParseDate(endText') = config.endtime]_vars

C11_Witness ==
  /\ event.op = "timeChange"
  /\ event.target = "realtime"
  /\ config.timemode = "realtime"
  /\ config.starttime = 0
  /\ config.endtime = MaxRange
  /\ startText = TimeText(0)
  /\ endText = TimeText(MaxRange)

\* the step issues a request: a sync cycle ran up to its fetch
CycleStep == cycle' = cycle + 1

\* C12: the window of a cycle.  In realtime the end is the next whole minute
\* after the clock and the start 15 minutes before it; in pastday the end is
\* the next multiple of 5 minutes and the start 24 hours before it; both arm
\* one timer 300000 ms ahead.  In custom the window is the configuration's
\* pair and no timer is armed.
C12_WindowPerMode ==
  [][CycleStep =>
       LET q == request'
           minute == now' - (now' % 60)
       IN /\ q.id = cycle'
          /\ config'.timemode = "realtime"
               => /\ q.endtime % 60 = 0
                  /\ minute < q.endtime /\ q.endtime <= minute + 60
                  /\ q.starttime = q.endtime - RealtimeSpan
                  /\ timers' = {[id |-> cycle', due |-> now' + AutoUpdateTime]}
          /\ config'.timemode = "pastday"
               => /\ q.endtime % (5 * 60) = 0
                  /\ minute < q.endtime /\ q.endtime <= minute + 5 * 60
                  /\ q.starttime = q.endtime - PastdaySpan
                  /\ timers' = {[id |-> cycle', due |-> now' + AutoUpdateTime]}
          /\ config'.timemode \notin LiveModes
               => /\ q.starttime = config'.starttime
                  /\ q.endtime = config'.endtime
                  /\ timers' = {}
                  /\ autoUpdateTimeout' = NullHandle]_vars

C12_Witness ==
  /\ config.timemode = "pastday"
  /\ event.op = "timeChange"
  /\ request.id = cycle
  /\ cycle = 2
  /\ request.endtime % (5 * 60) = 0
  /\ request.endtime > now
  /\ request.starttime = request.endtime - PastdaySpan
  /\ timers = {[id |-> 2, due |-> now + AutoUpdateTime]}

\* C13: for n = 1 (realtime) and n = 5 (pastday) the rounded instant is
\* strictly later than the clock, has zero seconds, lies on a multiple of n
\* minutes and is at most n minutes after the clock truncated to the minute;
\* a clock already on a multiple of n minutes gives the instant n minutes
\* later.  The instants cross the hour and the day boundary.
C13_RoundUpStrictlyLater ==
  LET n == IF config.timemode = "realtime" THEN 1 ELSE 5
      minute == now - (now % 60)
      e == request.endtime
  IN (request.id = cycle /\ config.timemode \in LiveModes)
       => /\ e > now
          /\ e % 60 = 0
          /\ e % (n * 60) = 0
          /\ e <= minute + n * 60
          /\ (now % (n * 60) = 0) => (e = now + n * 60)

\* 23:55:00 rounds up by 5 minutes to midnight of the next day
C13_Witness ==
  /\ config.timemode = "pastday"
  /\ event.op = "timeChange"
  /\ request.id = cycle
  /\ now % 3600 = 55 * 60
  /\ request.endtime = now + 5 * 60
  /\ request.endtime = PastdaySpan

\* the published records
Published == {timeseries.records[i] : i \in DOMAIN timeseries.records}

\* the records of a set arranged by observatory code
ByCode(S) ==
  [i \in 1..Cardinality(S) |->
     CHOOSE r \in S :
       Cardinality({x \in S : CodeRank(x.observatory) < CodeRank(r.observatory)}) = i - 1]

\* C14: the comparison is transitive over the published records, and the
\* published order is the one the same records give when the service returns
\* them in another order (by code): it depends on the records alone.
C14_SortIsTotalOrder ==
  /\ \A a, b, c \in Published :
        (Compare(a, b) <= 0 /\ Compare(b, c) <= 0) => Compare(a, c) <= 0
  /\ timeseries.records = SortSeries(ByCode(Published))

\* C15: when every published record has a defined latitude, a record with
\* a higher latitude comes before one with a lower latitude; when none has a
\* latitude, the records are in ascending order of observatory code.
C15_LatitudeThenCode ==
  LET recs == timeseries.records
  IN /\ (\A r \in Published : r.latitude # NoLatitude)
          => \A i, j \in DOMAIN recs :
               (i < j /\ recs[i].latitude # recs[j].latitude)
                 => recs[i].latitude > recs[j].latitude
     /\ (\A r \in Published : r.latitude = NoLatitude)
          => \A i, j \in DOMAIN recs :
               i < j => CodeRank(recs[i].observatory) < CodeRank(recs[j].observatory)

\* C16: every change of the configuration starts one sync cycle that issues
\* one fetch request in the same step, whether or not a fetch is outstanding;
\* the request carries the configuration's channel and observatory, and the
\* full channel set exactly when an observatory is selected.
C16_ChangeIssuesOneFetch ==
  [][config' # config
       => /\ cycle' = cycle + 1
          /\ pending' = pending \cup {cycle'}
          /\ request'.id = cycle'
          /\ request'.channel = config'.channel
          /\ request'.observatory = config'.observatory
          /\ request'.channels = IF config'.observatory # NullId
                                 THEN Channels ELSE NoChannels]_vars

\* C17: the seconds flag of a request is (end - start <= 30 minutes) for the
\* window of its cycle: true in realtime, false in pastday, and in custom
\* true for a span of exactly 30 minutes and false for a longer one.
C17_SecondsFlag ==
  [][CycleStep =>
       LET q == request'
           span == q.endtime - q.starttime
       IN /\ q.seconds = (span <= 30 * 60)
          /\ config'.timemode = "realtime" => q.seconds
          /\ config'.timemode = "pastday" => ~q.seconds
          /\ (config'.timemode = "custom" /\ span = 30 * 60) => q.seconds
          /\ (config'.timemode = "custom" /\ span > 30 * 60) => ~q.seconds]_vars

C17_Witness ==
  /\ config.timemode = "custom"
  /\ request.id = cycle
  /\ request.starttime = 0
  /\ request.endtime = 30 * 60
  /\ request.seconds

\* C18: after a successful fetch every returned record is published; one
\* whose code is in the reference collection has the entry's name, latitude
\* and longitude and its own code and other fields, one whose code is not
\* has its metadata as returned.
C18_MergeKeepsOtherFields ==
  (event.op = "load" /\ app # "destroyed")
    => /\ Len(timeseries.records) = Len(event.response)
       /\ \A i \in DOMAIN event.response :
            LET m == event.response[i]
            IN IF \E o \in Reference : o.code = m.observatory
               THEN \E p \in Published, o \in Reference :
                      /\ o.code = m.observatory
                      /\ p = [m EXCEPT !.name = o.name,
                                       !.latitude = o.latitude,
                                       !.longitude = o.longitude]
                      /\ p.observatory = m.observatory
                      /\ p.rest = m.rest
               ELSE m \in Published

C18_Witness ==
  /\ event.op = "load"
  /\ app # "destroyed"
  /\ Len(event.response) = 2
  /\ \E p \in Published :
       p.observatory = "BOU" /\ p.name = "Boulder" /\ p.rest = "rest"
  /\ Meta("BRT") \in Published

\* C19: while the fetch of the most recently started cycle is outstanding
\* the loading flag is set; the completion of an older fetch does not clear
\* it.
C19_LoadingWhileNewestPending ==
  (cycle > 0 /\ cycle \in pending) => loading

\* C20: every sync cycle has a window with both instants and reaches its
\* fetch: the configuration a cycle runs on has a start and an end time
\* whenever its mode is neither realtime nor pastday, and the cycle run at
\* construction does not throw.
C20_CycleHasWindow ==
  /\ app # "threw"
  /\ config.timemode \notin LiveModes
       => (config.starttime # NullDate /\ config.endtime # NullDate)

\* the cycle has left Loading: the flag is cleared and the published set is
\* the merged and sorted response, or empty
LeftLoading ==
  /\ ~loading
  /\ \/ timeseries.records = <<>>
     \/ timeseries.records = SortSeries(MergeAll(event.response, Reference))

\* C21: with one callback for every request, a cycle that is loading and is
\* followed by no configuration change and no timer firing (no later cycle
\* starts) reaches a state where the flag is cleared and the published set
\* is the merged and sorted response or empty.
C21_LeavesLoading ==
  \A c \in 1..MaxCycles :
    (loading /\ cycle = c) ~> (cycle # c \/ LeftLoading)

====
